---- MODULE Spec2Model ----
(***************************************************************************)
(* The one-second timer of the hub core (_async_create_timer in            *)
(* engine/core/core.py) together with the part of the hub lifecycle and of *)
(* the event bus that drives it.                                           *)
(*                                                                         *)
(* All times are integers in microseconds.  The wall clock (utcnow) and    *)
(* the monotonic clock (monotonic) are separate variables: the wall clock  *)
(* may jump, the monotonic clock only moves forward.                       *)
(***************************************************************************)
EXTENDS Integers, Sequences, FiniteSets, TLC

\* 10 ** 6: microseconds in one second (slp_seconds = 1 - microsecond / 10 ** 6).
MICROS == 1000000

\* Number of wake-ups the model follows.
MaxTicks == 2

\* Number of delayed-callback handles in an enumerated closure state (SpecStop).
MaxHandles == 3

EVENT_TIME_CHANGED == "time_changed"
EVENT_TIMER_OUT_OF_SYNC == "timer_out_of_sync"
EVENT_HOMEASSISTANT_START == "homeassistant_start"
EVENT_HOMEASSISTANT_STARTED == "homeassistant_started"
EVENT_HOMEASSISTANT_STOP == "homeassistant_stop"
ATTR_NOW == "now"
ATTR_SECONDS == "seconds"

\* Sub-second offsets of the wall clock when the hub is constructed.
StartMicroChoices == {0, 1, 333333, 999999}

\* How late (monotonic time past the scheduled time) the loop runs a callback.
LateChoices == {0, 300000, 1000000, 1000001, 1300000}

\* Jumps of the wall clock between two readings (0: it follows the monotonic clock).
JumpChoices == {0 - 1500000, 0, 2250000}

VARIABLES
    hub_state,      \* lifecycle state of the hub (not_running, starting, running, stopping)
    stop_listener,  \* the one-shot homeassistant_stop listener of line 128:
                    \* absent, registered, queued (its callback is scheduled), ran
    handle,         \* closure variable handle (line 90): 0 is None, else an index into timers
    timer_context,  \* closure variable timer_context (line 91): 0 before the timer is created
    next_context,   \* the next identifier Context() mints
    timers,         \* every handle hass.loop.call_later returned (line 99), in call order
    events,         \* every event handed to hass.bus.async_fire, in call order
    mono,           \* monotonic() (lines 98, 111), in microseconds
    wall,           \* dt_util.utcnow() (lines 104, 131), in microseconds
    ticks,          \* number of runs of fire_time_event
    raised          \* TRUE once stop_timer raised an exception

vars == <<hub_state, stop_listener, handle, timer_context, next_context,
          timers, events, mono, wall, ticks, raised>>

----------------------------------------------------------------------------
\* datetime.microsecond of a wall-clock reading
microsecond(now) == now % MICROS

\* schedule_tick, line 97, where a time on a second boundary gets no delay
slp_seconds_wrapped(now) == (MICROS - microsecond(now)) % MICROS

\* schedule_tick, line 97: the delay until the next second rolls around
slp_seconds(now) == MICROS - microsecond(now)

\* The handle loop.call_later(delay, fire_time_event, target) returns when it is
\* called at monotonic time clock, after seq events were handed to the bus.
\* ran is the monotonic time at which the loop ran the callback (0: not run).
call_later(delay, target, clock, seq) ==
    [when |-> clock + delay, target |-> target, delay |-> delay,
     status |-> "scheduled", ran |-> 0, seq |-> seq]

\* Handle.cancel(): a handle that already ran or was cancelled is left as it is
cancel(tm, h) ==
    [tm EXCEPT ![h].status = IF @ = "scheduled" THEN "cancelled" ELSE @]

\* schedule_tick without `nonlocal handle`: the closure's handle is never rebound
schedule_tick_local(tm, now, clock, seq) ==
    /\ timers' = Append(tm, call_later(slp_seconds(now), clock + slp_seconds(now), clock, seq))
    /\ handle' = handle

\* schedule_tick taking the next target one second after the previous target
\* instead of from monotonic(): a late wake-up makes the next ones late too
schedule_tick_accumulating(tm, now, clock, seq) ==
    /\ timers' = Append(tm, call_later(slp_seconds(now),
                                       IF tm = <<>> THEN clock + slp_seconds(now)
                                       ELSE tm[Len(tm)].target + MICROS,
                                       clock, seq))
    /\ handle' = Len(tm) + 1

\* schedule_tick(now), lines 93-99, called when monotonic() = clock; tm is the
\* loop's handles at that moment
schedule_tick(tm, now, clock, seq) ==
    /\ timers' = Append(tm, call_later(slp_seconds(now), clock + slp_seconds(now), clock, seq))
    /\ handle' = Len(tm) + 1

\* An Event as the bus constructs it from async_fire's arguments
Event(type, data, time_fired, context) ==
    [type |-> type, data |-> data, time_fired |-> time_fired, context |-> context]

\* time_changed published without time_fired: the bus stamps a later reading
time_changed_event_restamped(now, context) ==
    Event(EVENT_TIME_CHANGED, (ATTR_NOW :> now), now + 1, context)

\* lines 106-108
time_changed_event(now, context) ==
    Event(EVENT_TIME_CHANGED, (ATTR_NOW :> now), now, context)

\* timer_out_of_sync reporting only the part of the lateness beyond one second
out_of_sync_event_excess(late, now, context) ==
    Event(EVENT_TIMER_OUT_OF_SYNC, (ATTR_SECONDS :> (late - MICROS)), now, context)

\* timer_out_of_sync published without context: the bus mints a fresh Context
out_of_sync_event_fresh(late, now, context) ==
    Event(EVENT_TIMER_OUT_OF_SYNC, (ATTR_SECONDS :> late), now, next_context)

\* lines 113-118
out_of_sync_event(late, now, context) ==
    Event(EVENT_TIMER_OUT_OF_SYNC, (ATTR_SECONDS :> late), now, context)

\* line 112 written as late >= 1
tick_missed_inclusive(late) == late >= MICROS

\* line 112: if late > 1
tick_missed(late) == late > MICROS

\* lines 106-118 with the two publications in the other order
tick_events_swapped(late, now, context) ==
    IF tick_missed(late)
    THEN <<out_of_sync_event(late, now, context), time_changed_event(now, context)>>
    ELSE <<time_changed_event(now, context)>>

\* lines 106-118: what one wake-up hands to hass.bus.async_fire, in order
tick_events(late, now, context) ==
    <<time_changed_event(now, context)>> \o
    (IF tick_missed(late) THEN <<out_of_sync_event(late, now, context)>> ELSE <<>>)

\* fire_time_event returning right after timer_out_of_sync, without rescheduling
fire_time_event_return_when_late(h) ==
    LET now == wall'
        late == mono' - timers[h].target
        ranTimers == [timers EXCEPT ![h].status = "fired", ![h].ran = mono']
    IN /\ events' = events \o tick_events(late, now, timer_context)
       /\ IF tick_missed(late)
          THEN timers' = ranTimers /\ handle' = handle
          ELSE schedule_tick(ranTimers, now, mono', Len(events'))

\* fire_time_event calling schedule_tick twice: two handles are left pending
fire_time_event_double_schedule(h) ==
    LET now == wall'
        late == mono' - timers[h].target
        ranTimers == [timers EXCEPT ![h].status = "fired", ![h].ran = mono']
        next == call_later(slp_seconds(now), mono' + slp_seconds(now), mono', Len(events'))
    IN /\ events' = events \o tick_events(late, now, timer_context)
       /\ timers' = Append(Append(ranTimers, next), next)
       /\ handle' = Len(ranTimers) + 2

\* fire_time_event measuring the lateness on the wall clock: the seconds utcnow
\* moved since the wake-up was scheduled, less the delay asked for
fire_time_event_wall_late(h) ==
    LET now == wall'
        late == (wall' - wall) - (timers[h].target - mono)
        ranTimers == [timers EXCEPT ![h].status = "fired", ![h].ran = mono']
    IN /\ events' = events \o tick_events(late, now, timer_context)
       /\ schedule_tick(ranTimers, now, mono', Len(events'))

\* fire_time_event(target), lines 101-120, run by the loop for handle h
\* (target = timers[h].target); wall' and mono' are the clock readings of this run
fire_time_event(h) ==
    LET now == wall'
        late == mono' - timers[h].target
        ranTimers == [timers EXCEPT ![h].status = "fired", ![h].ran = mono']
    IN /\ events' = events \o tick_events(late, now, timer_context)
       /\ schedule_tick(ranTimers, now, mono', Len(events'))

\* stop_timer without the None check
stop_timer_unguarded ==
    IF handle = 0
    THEN timers' = timers /\ raised' = TRUE
    ELSE timers' = cancel(timers, handle) /\ raised' = raised

\* stop_timer(_), lines 122-126
stop_timer ==
    /\ timers' = IF handle # 0 THEN cancel(timers, handle) ELSE timers
    /\ raised' = raised

\* _async_create_timer(hass), lines 88-131, called after seq events were fired
async_create_timer(seq) ==
    /\ timer_context' = next_context
    /\ stop_listener' = "registered"
    /\ schedule_tick(timers, wall, mono, seq)

----------------------------------------------------------------------------
\* The hub before start(): no timer, nothing published
Init ==
    /\ hub_state = "not_running"
    /\ stop_listener = "absent"
    /\ handle = 0
    /\ timer_context = 0
    /\ next_context = 1
    /\ timers = <<>>
    /\ events = <<>>
    /\ mono = 0
    /\ wall \in {10 * MICROS + us : us \in StartMicroChoices}
    /\ ticks = 0
    /\ raised = FALSE

\* start(): transitions to starting, starts the Timer, publishes "hub start"
async_start ==
    /\ hub_state = "not_running"
    /\ hub_state' = "starting"
    /\ async_create_timer(Len(events))
    /\ events' = Append(events, Event(EVENT_HOMEASSISTANT_START, <<>>, wall, next_context + 1))
    /\ next_context' = next_context + 2
    /\ UNCHANGED <<mono, wall, ticks, raised>>

\* start(), after the drain: transitions to running, publishes "hub started"
async_started ==
    /\ hub_state = "starting"
    /\ hub_state' = "running"
    /\ events' = Append(events, Event(EVENT_HOMEASSISTANT_STARTED, <<>>, wall, next_context))
    /\ next_context' = next_context + 1
    /\ UNCHANGED <<stop_listener, handle, timer_context, timers, mono, wall, ticks, raised>>

\* stop(): transitions to stopping, publishes "hub stop"; the bus removes the
\* one-shot listener and schedules its callback
async_stop ==
    /\ hub_state = "running"
    /\ hub_state' = "stopping"
    /\ events' = Append(events, Event(EVENT_HOMEASSISTANT_STOP, <<>>, wall, next_context))
    /\ next_context' = next_context + 1
    /\ stop_listener' = IF stop_listener = "registered" THEN "queued" ELSE stop_listener
    /\ UNCHANGED <<handle, timer_context, timers, mono, wall, ticks, raised>>

\* The scheduler runs the queued stop listener
run_stop_timer ==
    /\ stop_listener = "queued"
    /\ stop_listener' = "ran"
    /\ stop_timer
    /\ UNCHANGED <<hub_state, handle, timer_context, next_context, events, mono, wall, ticks>>

\* The loop runs a scheduled, not cancelled handle once its time has come
run_timer ==
    \E h \in DOMAIN timers, late \in LateChoices, jump \in JumpChoices :
        /\ ticks < MaxTicks
        /\ timers[h].status = "scheduled"
        /\ timers[h].when + late >= mono
        /\ mono' = timers[h].when + late
        /\ wall' = wall + (mono' - mono) + jump
        /\ ticks' = ticks + 1
        /\ fire_time_event(h)
        /\ UNCHANGED <<hub_state, stop_listener, timer_context, next_context, raised>>

Next ==
    \/ async_start
    \/ async_started
    \/ async_stop
    \/ run_stop_timer
    \/ run_timer

Spec == Init /\ [][Next]_vars

\* The event loop eventually runs every delayed callback that is scheduled and
\* not cancelled
SpecLive == Spec /\ WF_vars(run_timer)

----------------------------------------------------------------------------
\* The states of the timer closure and of the loop's handles in which the stop
\* listener can find them: no handle yet (handle is None), or n handles of which
\* the last one, the one `handle` names, is pending, has already run, or was
\* cancelled; the homeassistant_stop listener is queued to run.
InitStop ==
    \E n \in 0..MaxHandles, last \in {"scheduled", "fired", "cancelled"},
       late \in LateChoices :
        /\ hub_state = "stopping"
        /\ stop_listener = "queued"
        /\ handle = n
        /\ timer_context = 1
        /\ next_context = 2
        /\ timers = [i \in 1..n |->
                       [when |-> i * MICROS, target |-> i * MICROS, delay |-> MICROS,
                        status |-> IF i < n THEN "fired" ELSE last,
                        ran |-> IF i < n THEN i * MICROS
                                ELSE IF last = "fired" THEN i * MICROS + late ELSE 0,
                        seq |-> 0]]
        /\ events = <<>>
        /\ mono = n * MICROS + late
        /\ wall \in {10 * MICROS + us : us \in StartMicroChoices}
        /\ ticks = 0
        /\ raised = FALSE

NextStop == run_stop_timer

SpecStop == InitStop /\ [][NextStop]_vars

----------------------------------------------------------------------------
\* What one step did

\* the events handed to the bus in this step
NewEvents == SubSeq(events', Len(events) + 1, Len(events'))

OfType(evs, type) == SelectSeq(evs, LAMBDA e : e.type = type)

IsTimerEvent(e) == e.type \in {EVENT_TIME_CHANGED, EVENT_TIMER_OUT_OF_SYNC}

\* this step is a wake-up: the loop ran a pending handle
Wakeup == \E h \in DOMAIN timers :
              timers[h].status = "scheduled" /\ timers'[h].status = "fired"

WokenHandle == CHOOSE h \in DOMAIN timers :
                   timers[h].status = "scheduled" /\ timers'[h].status = "fired"

\* monotonic clock reading of the wake-up minus the target fixed when it was scheduled
Lateness == mono' - timers[WokenHandle].target

\* this step called loop.call_later
Scheduled == Len(timers') = Len(timers) + 1

NewTimer == timers'[Len(timers')]

StopRan == stop_listener = "ran"

Pending(h) == timers[h].status = "scheduled"

LateOf(h) == timers[h].ran - timers[h].target

----------------------------------------------------------------------------
\* C1: every wake-up publishes exactly one time_changed event, whose only data
\* key is `now`, with data.now and time_fired both equal to the time captured
\* in that wake-up; no other step publishes a time_changed event.
C1_OneTimeChangedPerWakeup ==
    [][LET tc == OfType(NewEvents, EVENT_TIME_CHANGED)
       IN IF Wakeup
          THEN /\ Len(tc) = 1
               /\ DOMAIN tc[1].data = {ATTR_NOW}
               /\ tc[1].data[ATTR_NOW] = wall'
               /\ tc[1].time_fired = wall'
          ELSE Len(tc) = 0]_vars

C1_Witness ==
    /\ ticks = 2
    /\ Len(OfType(events, EVENT_TIME_CHANGED)) = 2
    /\ events[Len(events)].type = EVENT_TIME_CHANGED
    /\ events[Len(events)].time_fired = wall

\* C2: a wake-up publishes timer_out_of_sync if and only if its lateness is
\* strictly greater than one second, at most once, and then with data.seconds
\* equal to that lateness; no other step publishes it.
C2_OutOfSyncIffLate ==
    [][LET oos == OfType(NewEvents, EVENT_TIMER_OUT_OF_SYNC)
       IN IF Wakeup
          THEN /\ Len(oos) = (IF Lateness > MICROS THEN 1 ELSE 0)
               /\ Len(oos) = 1 => /\ DOMAIN oos[1].data = {ATTR_SECONDS}
                                  /\ oos[1].data[ATTR_SECONDS] = Lateness
          ELSE Len(oos) = 0]_vars

C2_Witness ==
    /\ ticks = 2
    /\ LateOf(1) = MICROS
    /\ LateOf(2) = MICROS + 1
    /\ Len(OfType(events, EVENT_TIMER_OUT_OF_SYNC)) = 1
    /\ events[Len(events)].data = (ATTR_SECONDS :> (MICROS + 1))

\* C3: once the stop listener has run no wake-up is pending, and from then on
\* no time_changed or timer_out_of_sync is published and nothing is scheduled,
\* also when a wake-up ran between the publication of homeassistant_stop and
\* the run of the stop listener.
C3_StoppedTimerIsSilent ==
    /\ [](StopRan => \A h \in DOMAIN timers : ~Pending(h))
    /\ [][StopRan => /\ \A i \in DOMAIN NewEvents : ~IsTimerEvent(NewEvents[i])
                     /\ timers' = timers]_vars

C3_Witness ==
    /\ StopRan
    /\ \E h \in DOMAIN timers, k \in DOMAIN events :
          /\ events[k].type = EVENT_HOMEASSISTANT_STOP
          /\ timers[h].seq > k
          /\ timers[h].status = "cancelled"

\* C4: every wake-up, late or not, schedules exactly one next wake-up, which
\* `handle` then names, with a delay of one second minus the sub-second part of
\* the time captured in that same wake-up; no earlier handle changes.
C4_WakeupSchedulesNext ==
    [][Wakeup =>
         /\ Scheduled
         /\ NewTimer.status = "scheduled"
         /\ NewTimer.delay = MICROS - (wall' % MICROS)
         /\ NewTimer.when = mono' + NewTimer.delay
         /\ handle' = Len(timers')
         /\ \A h \in DOMAIN timers : h # WokenHandle => timers'[h] = timers[h]]_vars

C4_Witness ==
    /\ ticks = 2
    /\ Len(timers) = 3
    /\ LateOf(1) > MICROS
    /\ LateOf(2) = 0
    /\ Pending(3)
    /\ handle = 3

\* C5: every time_changed and timer_out_of_sync event carries the timer's one
\* Context, which is minted when the timer is created and never replaced.
C5_OneTimerContext ==
    /\ [](\A i \in DOMAIN events :
            IsTimerEvent(events[i]) =>
                timer_context # 0 /\ events[i].context = timer_context)
    /\ [][timer_context # 0 => timer_context' = timer_context]_vars

C5_Witness ==
    /\ ticks = 2
    /\ Len(OfType(events, EVENT_TIMER_OUT_OF_SYNC)) = 2
    /\ \A i \in DOMAIN events :
          IsTimerEvent(events[i]) => events[i].context = timer_context

\* C6: in a wake-up that is more than one second late, time_changed is
\* published before timer_out_of_sync and both before the next wake-up is
\* scheduled; a timer_out_of_sync is always preceded by the time_changed of
\* its own wake-up.
C6_TimeChangedThenOutOfSync ==
    [][/\ Wakeup /\ Lateness > MICROS =>
            \E i, j \in DOMAIN NewEvents :
                /\ i < j
                /\ NewEvents[i].type = EVENT_TIME_CHANGED
                /\ NewEvents[j].type = EVENT_TIMER_OUT_OF_SYNC
                /\ Scheduled
                /\ NewTimer.seq >= Len(events) + j
       /\ \A j \in DOMAIN NewEvents :
            NewEvents[j].type = EVENT_TIMER_OUT_OF_SYNC =>
                \E i \in 1..(j - 1) : NewEvents[i].type = EVENT_TIME_CHANGED]_vars

C6_Witness ==
    \E j \in DOMAIN events, h \in DOMAIN timers :
        /\ j > 1
        /\ events[j].type = EVENT_TIMER_OUT_OF_SYNC
        /\ events[j - 1].type = EVENT_TIME_CHANGED
        /\ events[j - 1].time_fired = events[j].time_fired
        /\ timers[h].seq = j

\* C7 as stated: a wake-up 1.3 seconds past its intended fire time publishes
\* time_changed with now = T and timer_out_of_sync with seconds about 0.3.
C7_Stated_SecondsIsExcess ==
    [][Wakeup /\ Lateness = 13 * (MICROS \div 10) =>
         /\ \E i \in DOMAIN NewEvents :
              /\ NewEvents[i].type = EVENT_TIME_CHANGED
              /\ NewEvents[i].data[ATTR_NOW] = wall'
         /\ \E j \in DOMAIN NewEvents :
              /\ NewEvents[j].type = EVENT_TIMER_OUT_OF_SYNC
              /\ NewEvents[j].data[ATTR_SECONDS] >= 3 * (MICROS \div 10) - MICROS \div 1000
              /\ NewEvents[j].data[ATTR_SECONDS] <= 3 * (MICROS \div 10) + MICROS \div 1000]_vars

\* C7 amended: a wake-up 1.3 seconds past its intended fire time publishes
\* time_changed with now = T and timer_out_of_sync with seconds about 1.3, the
\* whole lateness.
C7_SecondsIsLateness ==
    [][Wakeup /\ Lateness = 13 * (MICROS \div 10) =>
         /\ \E i \in DOMAIN NewEvents :
              /\ NewEvents[i].type = EVENT_TIME_CHANGED
              /\ NewEvents[i].data[ATTR_NOW] = wall'
         /\ \E j \in DOMAIN NewEvents :
              /\ NewEvents[j].type = EVENT_TIMER_OUT_OF_SYNC
              /\ NewEvents[j].data[ATTR_SECONDS] >= 13 * (MICROS \div 10) - MICROS \div 1000
              /\ NewEvents[j].data[ATTR_SECONDS] <= 13 * (MICROS \div 10) + MICROS \div 1000]_vars

C7_Witness ==
    /\ ticks >= 1
    /\ LateOf(1) = 13 * (MICROS \div 10)
    /\ \E j \in DOMAIN events :
          /\ events[j].type = EVENT_TIMER_OUT_OF_SYNC
          /\ events[j].data[ATTR_SECONDS] = 13 * (MICROS \div 10)
          /\ events[j - 1].type = EVENT_TIME_CHANGED
          /\ events[j - 1].data[ATTR_NOW] = events[j].time_fired

\* C8: whenever a wake-up is scheduled for a time `now`, the delay is one second
\* minus now's microsecond offset: greater than 0, at most one second, leading
\* exactly to the first whole-second boundary after `now`, and a full second
\* when `now` lies on a boundary.
C8_DelayToNextSecond ==
    [][Scheduled =>
         LET now == wall'
             delay == NewTimer.delay
         IN /\ delay = MICROS - microsecond(now)
            /\ delay > 0
            /\ delay <= MICROS
            /\ (now + delay) % MICROS = 0
            /\ now + delay = ((now \div MICROS) + 1) * MICROS
            /\ microsecond(now) = 0 => delay = MICROS]_vars

C8_Witness ==
    /\ Len(timers) = 3
    /\ timers[1].delay = 1
    /\ timers[2].delay = MICROS
    /\ timers[3].delay = MICROS \div 2
    /\ microsecond(wall) = MICROS \div 2

\* C9: a run of the stop listener raises nothing and publishes nothing in any
\* timer state; with handle None, or with a handle that already ran or was
\* cancelled, it changes no handle at all, and otherwise only cancels the one
\* `handle` names.
C9_StopListenerIsSafe ==
    [][stop_listener = "queued" /\ stop_listener' = "ran" =>
         /\ raised' = FALSE
         /\ events' = events
         /\ handle' = handle
         /\ Len(timers') = Len(timers)
         /\ handle = 0 => timers' = timers
         /\ handle # 0 /\ ~Pending(handle) => timers' = timers
         /\ \A h \in DOMAIN timers : h # handle => timers'[h] = timers[h]]_vars

C9_Witness ==
    /\ StopRan
    /\ handle = 0
    /\ timers = <<>>
    /\ raised = FALSE

\* C10: no wake-up is scheduled and no time_changed is published before the
\* homeassistant_start event has been fired.
C10_NothingBeforeStartEvent ==
    /\ \A h \in DOMAIN timers :
          \E k \in 1..timers[h].seq : events[k].type = EVENT_HOMEASSISTANT_START
    /\ \A i \in DOMAIN events :
          events[i].type = EVENT_TIME_CHANGED =>
              \E k \in 1..(i - 1) : events[k].type = EVENT_HOMEASSISTANT_START

\* C11: at most one wake-up is pending, and `handle` names it; a handle goes
\* from scheduled to fired only in a wake-up, which schedules the next one, and
\* from scheduled to cancelled only in the run of the stop listener; a wake-up
\* is scheduled only at creation or by a wake-up, and never once one was cancelled.
C11_OnePendingWakeup ==
    /\ [](\A h \in DOMAIN timers :
            Pending(h) => handle = h /\ \A g \in DOMAIN timers : Pending(g) => g = h)
    /\ [][/\ \A h \in DOMAIN timers :
                timers'[h].status # timers[h].status =>
                    \/ /\ timers[h].status = "scheduled"
                       /\ timers'[h].status = "fired"
                       /\ Scheduled
                       /\ NewTimer.status = "scheduled"
                    \/ /\ timers[h].status = "scheduled"
                       /\ timers'[h].status = "cancelled"
                       /\ stop_listener = "queued"
                       /\ stop_listener' = "ran"
                       /\ ~Scheduled
          /\ Len(timers') >= Len(timers)
          /\ Len(timers') # Len(timers) => Scheduled /\ (Wakeup \/ timers = <<>>)
          /\ (\E h \in DOMAIN timers : timers[h].status = "cancelled") =>
                timers' = timers]_vars

C11_Witness ==
    /\ StopRan
    /\ Len(timers) = 3
    /\ timers[1].status = "fired"
    /\ timers[2].status = "fired"
    /\ timers[3].status = "cancelled"
    /\ handle = 3

\* C12: under the loop's fairness, once the timer is created it keeps ticking
\* unless the stop listener runs: as far as the model follows it (MaxTicks
\* wake-ups), every scheduled wake-up eventually fires, each publishes a
\* time_changed event, and the last one leaves another wake-up scheduled.
C12_TimerKeepsTicking ==
    (timers # <<>>) ~>
        \/ StopRan
        \/ /\ ticks = MaxTicks
           /\ Len(OfType(events, EVENT_TIME_CHANGED)) = MaxTicks
           /\ Len(timers) = MaxTicks + 1
           /\ \A h \in 1..MaxTicks : timers[h].status = "fired"
           /\ Pending(MaxTicks + 1)

C12_Witness ==
    /\ ~StopRan
    /\ stop_listener = "registered"
    /\ ticks = MaxTicks
    /\ Len(OfType(events, EVENT_TIME_CHANGED)) = MaxTicks
    /\ Pending(MaxTicks + 1)

\* the handles whose callback has run
Fired == {h \in DOMAIN timers : timers[h].status = "fired"}

\* how long after the time the loop was asked to run it handle h ran
LoopLateOf(h) == timers[h].ran - timers[h].when

\* C13: lateness does not accumulate: the intended fire time of every wake-up
\* is the monotonic time at which it was scheduled plus its delay, so there are
\* exactly as many timer_out_of_sync events as wake-ups that ran more than one
\* second after that time, and exactly one time_changed event per wake-up.
C13_LatenessDoesNotAccumulate ==
    /\ \A h \in DOMAIN timers : timers[h].target = timers[h].when
    /\ Len(OfType(events, EVENT_TIMER_OUT_OF_SYNC)) =
           Cardinality({h \in Fired : LoopLateOf(h) > MICROS})
    /\ Len(OfType(events, EVENT_TIME_CHANGED)) = Cardinality(Fired)
    /\ Cardinality(Fired) = ticks

C13_Witness ==
    /\ ticks = 2
    /\ LoopLateOf(1) = 13 * (MICROS \div 10)
    /\ LoopLateOf(2) = MICROS
    /\ Len(OfType(events, EVENT_TIMER_OUT_OF_SYNC)) = 1
    /\ Len(OfType(events, EVENT_TIME_CHANGED)) = 2

\* C14: a wake-up before which the wall clock jumped (utcnow did not move by
\* what monotonic moved) publishes timer_out_of_sync exactly when its lateness
\* on the monotonic clock exceeds one second, whatever the jump, and the delay
\* of the wake-up it schedules is greater than 0 and at most one second.
C14_WallClockJumpIsHarmless ==
    [][Wakeup /\ (wall' - wall # mono' - mono) =>
         /\ Len(OfType(NewEvents, EVENT_TIMER_OUT_OF_SYNC)) =
                (IF mono' - timers[WokenHandle].when > MICROS THEN 1 ELSE 0)
         /\ Scheduled
         /\ NewTimer.delay > 0
         /\ NewTimer.delay <= MICROS]_vars

C14_Witness ==
    /\ ticks = 2
    /\ LoopLateOf(1) = 0
    /\ LoopLateOf(2) = MICROS
    /\ Len(OfType(events, EVENT_TIMER_OUT_OF_SYNC)) = 0
    /\ events[1].type = EVENT_HOMEASSISTANT_START
    /\ \E i, j \in DOMAIN events :
          /\ i < j
          /\ events[i].type = EVENT_TIME_CHANGED
          /\ events[j].type = EVENT_TIME_CHANGED
          /\ events[i].time_fired - events[1].time_fired = timers[1].ran + 2250000
          /\ events[j].time_fired - events[i].time_fired
                 = (timers[2].ran - timers[1].ran) - 1500000
    /\ timers[3].delay > 0
    /\ timers[3].delay <= MICROS

====
